---- MODULE Spec2Model ----
(***************************************************************************)
(* Method overloads of the NumPy Generator object                          *)
(* (numba/np/random/generator_methods.py): integers, shuffle, permutation, *)
(* random, standard_exponential and standard_normal, as a state machine.   *)
(*                                                                         *)
(* A call is made by a Call* action (typing of the overload, then the      *)
(* first statements of impl up to its first loop); every loop iteration    *)
(* that consumes a raw word of the bit generator is one further step.      *)
(* Arrays are records [shape, data]: shape a tuple of extents, data a      *)
(* function from 0-based coordinate tuples to integers.                    *)
(***************************************************************************)
EXTENDS Integers, Sequences, FiniteSets, TLC

VARIABLES
    pc,             \* "idle", "shuffle", "scalar", "fill", "bounded", "done"
    call,           \* the call in progress, or the last one made
    status,         \* "none", "running", "ok", an exception name, or "crash"
    bit_generator,  \* inst.bit_generator: number of raw words handed out
    start,          \* bit_generator when the call in progress began
    x,              \* the array the caller passed to shuffle / permutation
    x0,             \* contents of x when the call began
    new_arr,        \* permutation: the array array_maker returned
    target,         \* which array the running shuffle writes: "x" or "new_arr"
    i,              \* shuffle: the loop variable
    out,            \* array fills: the array being filled
    idx,            \* array fills: the coordinate np.ndindex is at
    kcalls,         \* results of the kernel calls of this call, in call order
    ret,            \* what the call returned
    run,            \* 0: calls are made once; 1: first execution; 2, 3: repeated
    stream,         \* raw words handed out during the first execution
    first           \* outcome of the first execution

vars == <<pc, call, status, bit_generator, start, x, x0, new_arr, target, i,
          out, idx, kcalls, ret, run, stream, first>>

(***************************************************************************)
(* Bounds of the model.                                                    *)
(***************************************************************************)
MaxDim == 3        \* largest extent of an axis of a caller's array
MaxFill == 4       \* largest number of elements of an array a call allocates
MaxIntFill == 2    \* largest number of elements integers is asked for
MaxReject == 2     \* rejected raw words explored per call
MaxStart == 0      \* a call begins only while bit_generator <= MaxStart

(***************************************************************************)
(* Arithmetic and tuple helpers.                                           *)
(***************************************************************************)
RECURSIVE Prod(_)
Prod(s) == IF s = <<>> THEN 1 ELSE Head(s) * Prod(Tail(s))

MaxOf(S) == CHOOSE m \in S : \A n \in S : n <= m

\* Python's tuple[idx] for a valid idx: negative indices count from the end.
WrapIndex(ix, n) == IF ix < 0 THEN ix + n ELSE ix

Coords(shape) ==
    {c \in [1..Len(shape) -> 0..MaxOf({0} \cup {shape[d] : d \in 1..Len(shape)})] :
        \A d \in 1..Len(shape) : c[d] < shape[d]}

\* Position of coordinate c in row-major (last axis fastest) order, from 0.
RECURSIVE RowMajorRank(_, _)
RowMajorRank(c, shape) ==
    IF c = <<>> THEN 0
    ELSE Head(c) * Prod(Tail(shape)) + RowMajorRank(Tail(c), Tail(shape))

ndim(arr) == Len(arr.shape)

\* np.arange(n)
arange(n) ==
    [shape |-> <<IF n < 0 THEN 0 ELSE n>>,
     data |-> [c \in Coords(<<IF n < 0 THEN 0 ELSE n>>) |-> c[1]]]

EmptyArray == arange(0)

\* Number of elements of arr equal to v.
Count(arr, v) == Cardinality({c \in DOMAIN arr.data : arr.data[c] = v})

Values(arr) == {arr.data[c] : c \in DOMAIN arr.data}

SameMultiset(a, b) ==
    \A v \in Values(a) \cup Values(b) : Count(a, v) = Count(b, v)

(***************************************************************************)
(* Integers of the width of a machine word. A value of low, high, a bound  *)
(* or a range can need 64 bits and more, so it is held exactly as three    *)
(* limbs <<a, b, c>>, standing for a * 2^60 + b * 2^30 + c with            *)
(* 0 <= b < 2^30 and 0 <= c < 2^30; a carries the sign.                    *)
(***************************************************************************)
Limb == 2^30

Norm(a, b, c) ==
    LET b1 == b + (c \div Limb)
    IN  <<a + (b1 \div Limb), b1 % Limb, c % Limb>>

\* The integer v, -2^30 < v < 2^30.
Big(v) == Norm(0, 0, v)

BigAdd(p, q) == Norm(p[1] + q[1], p[2] + q[2], p[3] + q[3])

BigSub(p, q) == Norm(p[1] - q[1], p[2] - q[2], p[3] - q[3])

BigLeq(p, q) ==
    \/ p[1] < q[1]
    \/ p[1] = q[1] /\ p[2] < q[2]
    \/ p[1] = q[1] /\ p[2] = q[2] /\ p[3] <= q[3]

BigLess(p, q) == p # q /\ BigLeq(p, q)

\* 2^k, 0 <= k <= 64.
Pow2(k) ==
    IF k < 30 THEN <<0, 0, 2^k>>
    ELSE IF k < 60 THEN <<0, 2^(k - 30), 0>>
    ELSE <<2^(k - 60), 0, 0>>

\* p wrapped to a word of 8, 16, 32 or 64 bits, read as a signed or as an
\* unsigned integer.
WrapWord(bits, signed, p) ==
    LET u == IF bits = 64 THEN <<p[1] % 16, p[2], p[3]>>
             ELSE IF bits = 32 THEN <<0, p[2] % 4, p[3]>>
             ELSE <<0, 0, p[3] % (2^bits)>>
    IN  IF signed /\ BigLeq(Pow2(bits - 1), u) THEN BigSub(u, Pow2(bits)) ELSE u

(***************************************************************************)
(* The caller's inputs.                                                    *)
(***************************************************************************)
\* Raw words of the bit generator offered to random_interval.
Words == {0, 1, 2, 3, 127, 128, 255}

\* Shapes of rank 0, 1 and 2 with extents 0..MaxDim, and the 1-d shape
\* that is one longer.
Shapes ==
    {<<>>} \cup {<<a>> : a \in 0..(MaxDim + 1)}
           \cup {<<a, b>> : a \in 0..MaxDim, b \in 0..MaxDim}

\* Element k (row-major) of a caller's array is k % m: m = 2 repeats values,
\* m = 64 keeps them distinct.
Moduli == {2, 64}

ArrayOf(shape, m) ==
    [shape |-> shape, data |-> [c \in Coords(shape) |-> RowMajorRank(c, shape) % m]]

Arrays == {ArrayOf(s, m) : s \in Shapes, m \in Moduli}

Axes == -3..2

(***************************************************************************)
(* Types and values of the arguments.                                      *)
(***************************************************************************)
\* A size argument: its Numba type (cls, and the element types elts of a
\* tuple) and its value val (the extents; <<n>> for an integer n).
NoneSize == [cls |-> "NoneType", elts |-> <<>>, val |-> <<>>]

NoCall ==
    [op |-> "none", xkind |-> "Array", n |-> 0, axis |-> 0, size |-> NoneSize,
     dtype |-> "float64", method |-> "zig", low |-> Big(0), high |-> Big(0),
     endpoint |-> FALSE]

NoRet == [kind |-> "none", scalar |-> 0, arr |-> EmptyArray]

NoFirst ==
    [status |-> "none", ret |-> NoRet, x |-> EmptyArray, bit_generator |-> 0]

\* check_types(obj, type_list, arg_name): the argument's type is in the list.
check_types(kind, type_list) == kind \in type_list

(***************************************************************************)
(* The bit generator.                                                      *)
(***************************************************************************)
draws == bit_generator - start

\* One raw word w is handed out. A repeated execution (run = 2) is handed
\* the words of the first one for as long as they last.
next_word(w) ==
    /\ (run >= 2 /\ draws < Len(stream)) => w = stream[draws + 1]
    /\ bit_generator' = bit_generator + 1
    /\ stream' = IF run = 1 THEN Append(stream, w) ELSE stream

\* Smallest 2^k - 1 that is >= n.
RECURSIVE MaskFrom(_, _)
MaskFrom(m, n) == IF m >= n THEN m ELSE MaskFrom(2 * m + 1, n)

Mask(n) == MaskFrom(0, n)

\* random_interval(bitgen, max_val), one attempt: the raw word masked to the
\* smallest 2^k - 1 covering max_val; the attempt is accepted iff the masked
\* value is <= max_val.
random_interval(w, max_val) ==
    LET value == w % (Mask(max_val) + 1)
    IN  [accepted |-> value <= max_val, value |-> value]

(***************************************************************************)
(* Slicing.                                                                *)
(***************************************************************************)
\* slice(None, None) and slice(a, b).
SliceAll == [all |-> TRUE, lo |-> 0, hi |-> 0]

Slice(a, b) == [all |-> FALSE, lo |-> a, hi |-> b]

Min(a, b) == IF a <= b THEN a ELSE b

SliceLo(sl, extent) == IF sl.all THEN 0 ELSE Min(sl.lo, extent)

SliceHi(sl, extent) == IF sl.all THEN extent ELSE Min(sl.hi, extent)

\* np.copy(arr[sl]) for a tuple sl of slices, one per axis.
CopyItem(arr, sl) ==
    LET shp == [d \in 1..ndim(arr) |->
                   LET e == SliceHi(sl[d], arr.shape[d]) - SliceLo(sl[d], arr.shape[d])
                   IN  IF e < 0 THEN 0 ELSE e]
    IN  [shape |-> shp,
         data |-> [c \in Coords(shp) |->
                      arr.data[[d \in 1..ndim(arr) |->
                                   c[d] + SliceLo(sl[d], arr.shape[d])]]]]

\* arr[sl] = src, src of the shape of arr[sl].
SetItem(arr, sl, src) ==
    LET inside(c) == \A d \in 1..ndim(arr) :
                        /\ SliceLo(sl[d], arr.shape[d]) <= c[d]
                        /\ c[d] < SliceHi(sl[d], arr.shape[d])
    IN  [arr EXCEPT !.data =
            [c \in DOMAIN arr.data |->
                IF inside(c)
                THEN src.data[[d \in 1..ndim(arr) |->
                                  c[d] - SliceLo(sl[d], arr.shape[d])]]
                ELSE arr.data[c]]]

\* tuple_setitem(tup, ix, val): a copy of tup with item ix replaced, without
\* a bounds check. With ix outside 0..len-1 the store is out of bounds: the
\* build either leaves the tuple as it was or crashes.
tuple_setitem(tup, ix, val) ==
    IF 0 <= ix /\ ix < Len(tup)
    THEN {[fail |-> "", tup |-> [tup EXCEPT ![ix + 1] = val]]}
    ELSE {[fail |-> "", tup |-> tup], [fail |-> "crash", tup |-> tup]}

(***************************************************************************)
(* shuffle.                                                                *)
(***************************************************************************)
\* axis_impl taking the first index of every axis instead of all of it.
axis_impl_first(arr) == [d \in 1..ndim(arr) |-> Slice(0, 1)]

\* axis_impl = tuple([slice(None, None)] * x.ndim)
axis_impl(arr) == [d \in 1..ndim(arr) |-> SliceAll]

\* buffer = x[axis_impl2] taken as a view: it reads what is written later.
swap_slices_view(arr, axis_impl1, axis_impl2) ==
    LET x1 == SetItem(arr, axis_impl2, CopyItem(arr, axis_impl1))
    IN  SetItem(x1, axis_impl1, CopyItem(x1, axis_impl2))

\* buffer = np.copy(x[axis_impl2]); x[axis_impl2] = np.copy(x[axis_impl1]);
\* x[axis_impl1] = buffer
swap_slices(arr, axis_impl1, axis_impl2) ==
    LET buffer == CopyItem(arr, axis_impl2)
        x1 == SetItem(arr, axis_impl2, CopyItem(arr, axis_impl1))
    IN  SetItem(x1, axis_impl1, buffer)

\* The body of the loop with the axis checked in it, after the draw.
shuffle_body_checked(arr, axis, ii, j) ==
    IF axis < 0 \/ axis > ndim(arr) - 1
    THEN {[fail |-> "IndexError: axis", arr |-> arr]}
    ELSE IF ii = j THEN {[fail |-> "", arr |-> arr]}
    ELSE {[fail |-> "", arr |-> swap_slices(arr, t1.tup, t2.tup)] :
             t1 \in tuple_setitem(axis_impl(arr), axis, Slice(ii, ii + 1)),
             t2 \in tuple_setitem(axis_impl(arr), axis, Slice(j, j + 1))}

\* The body of the loop for one accepted j: the outcomes the build can give.
shuffle_body(arr, axis, ii, j) ==
    IF ii = j THEN {[fail |-> "", arr |-> arr]}
    ELSE {[fail |-> IF t1.fail # "" THEN t1.fail ELSE t2.fail,
           arr |-> IF t1.fail # "" \/ t2.fail # "" THEN arr
                   ELSE swap_slices(arr, t1.tup, t2.tup)] :
             t1 \in tuple_setitem(axis_impl(arr), axis, Slice(ii, ii + 1)),
             t2 \in tuple_setitem(axis_impl(arr), axis, Slice(j, j + 1))}

\* impl with the loop begun one index too low: range(n - 2, 0, -1).
shuffle_enter_short(arr, axis) ==
    IF axis > ndim(arr) - 1
    THEN [pc |-> "done", status |-> "IndexError: axis", i |-> 0]
    ELSE IF axis < -ndim(arr)
    THEN [pc |-> "done", status |-> "IndexError: tuple index", i |-> 0]
    ELSE LET n == arr.shape[WrapIndex(axis, ndim(arr)) + 1]
         IN  IF n - 2 >= 1 THEN [pc |-> "shuffle", status |-> "running", i |-> n - 2]
             ELSE [pc |-> "done", status |-> "ok", i |-> 0]

\* impl up to the loop: the axis check, x.shape[axis] and range(n - 1, 0, -1).
\* x.shape[axis] raises IndexError for axis < -ndim, as tuple indexing does.
shuffle_enter(arr, axis) ==
    IF axis > ndim(arr) - 1
    THEN [pc |-> "done", status |-> "IndexError: axis", i |-> 0]
    ELSE IF axis < -ndim(arr)
    THEN [pc |-> "done", status |-> "IndexError: tuple index", i |-> 0]
    ELSE LET n == arr.shape[WrapIndex(axis, ndim(arr)) + 1]
         IN  IF n - 1 >= 1 THEN [pc |-> "shuffle", status |-> "running", i |-> n - 1]
             ELSE [pc |-> "done", status |-> "ok", i |-> 0]

Target == IF target = "x" THEN x ELSE new_arr

\* A call can begin.
Idle == pc = "idle" /\ bit_generator <= MaxStart

\* A repeated execution makes the call of the first one again.
CanCall(c) == Idle /\ (run >= 2 => c = call)

\* The values an argument is drawn from: S, or in a repeated execution the
\* value v it had in the first.
Arg(S, v) == IF run >= 2 THEN {v} ELSE S

\* Generator().shuffle(x, axis)
CallShuffle ==
    /\ Idle
    /\ run >= 2 => call.op = "shuffle"
    /\ \E a \in Arg(Arrays, x0), axis \in Arg(Axes, call.axis),
          xkind \in Arg({"Array", "Float"}, call.xkind) :
        LET c == [NoCall EXCEPT !.op = "shuffle", !.xkind = xkind, !.axis = axis]
            e == shuffle_enter(a, axis)
        IN  /\ CanCall(c)
            /\ call' = c
            /\ start' = bit_generator
            /\ x' = a
            /\ x0' = a
            /\ target' = "x"
            /\ kcalls' = <<>>
            /\ ret' = NoRet
            /\ IF ~check_types(xkind, {"Array"})
               THEN pc' = "done" /\ status' = "TypingError: x" /\ i' = 0
               ELSE pc' = e.pc /\ status' = e.status /\ i' = e.i
            /\ UNCHANGED <<bit_generator, new_arr, out, idx, run, stream, first>>

\* array_maker(x) returning x itself.
array_maker_alias(xkind, a, n) ==
    IF xkind = "Integer"
    THEN [ref |-> "new_arr", arr |-> arange(n)]
    ELSE [ref |-> "x", arr |-> a]

\* array_maker(x): np.arange(x) for an integer, x.copy() for an array.
array_maker(xkind, a, n) ==
    IF xkind = "Integer"
    THEN [ref |-> "new_arr", arr |-> arange(n)]
    ELSE [ref |-> "new_arr", arr |-> a]

\* Generator().permutation(x, axis)
CallPermutation ==
    /\ Idle
    /\ run >= 2 => call.op = "permutation"
    /\ \E a \in Arg(Arrays, x0), n \in Arg(-1..MaxDim, call.n),
          axis \in Arg(Axes, call.axis),
          xkind \in Arg({"Array", "Integer", "Float"}, call.xkind) :
        LET c == [NoCall EXCEPT !.op = "permutation", !.xkind = xkind,
                                !.n = IF xkind = "Integer" THEN n ELSE 0,
                                !.axis = axis]
            arg == IF xkind = "Array" THEN a ELSE EmptyArray
            made == array_maker(xkind, arg, n)
            e == shuffle_enter(made.arr, axis)
        IN  /\ CanCall(c)
            /\ xkind # "Array" => a = EmptyArray
            /\ xkind # "Integer" => n = 0
            /\ call' = c
            /\ start' = bit_generator
            /\ x' = arg
            /\ x0' = arg
            /\ kcalls' = <<>>
            /\ IF ~check_types(xkind, {"Array", "Integer"})
               THEN /\ pc' = "done" /\ status' = "TypingError: x" /\ i' = 0
                    /\ ret' = NoRet
                    /\ UNCHANGED <<new_arr, target>>
               ELSE /\ target' = made.ref
                    /\ new_arr' = IF made.ref = "new_arr" THEN made.arr ELSE new_arr
                    /\ pc' = e.pc /\ status' = e.status /\ i' = e.i
                    /\ ret' = IF e.status = "ok"
                              THEN [NoRet EXCEPT !.kind = "array", !.arr = made.arr]
                              ELSE NoRet
            /\ UNCHANGED <<bit_generator, out, idx, run, stream, first>>

\* Rejected raw words of the running shuffle so far: kcalls holds the j
\* of every call of random_interval that has returned.
ShuffleRejects == draws - Len(kcalls)

\* One raw word inside random_interval(inst.bit_generator, i); when it is
\* accepted, the rest of the iteration and the step of range().
ShuffleStep ==
    /\ pc = "shuffle"
    /\ \E w \in Words :
        LET r == random_interval(w, i) IN
        /\ next_word(w)
        /\ IF ~r.accepted
           THEN /\ ShuffleRejects < MaxReject
                /\ UNCHANGED <<pc, status, x, new_arr, i, kcalls, ret>>
           ELSE \E o \in shuffle_body(Target, call.axis, i, r.value) :
                    /\ kcalls' = Append(kcalls, r.value)
                    /\ x' = IF target = "x" THEN o.arr ELSE x
                    /\ new_arr' = IF target = "new_arr" THEN o.arr ELSE new_arr
                    /\ IF o.fail # ""
                       THEN pc' = "done" /\ status' = o.fail /\ i' = i
                            /\ ret' = ret
                       ELSE /\ i' = i - 1
                            /\ pc' = IF i - 1 >= 1 THEN "shuffle" ELSE "done"
                            /\ status' = IF i - 1 >= 1 THEN "running" ELSE "ok"
                            /\ ret' = IF i - 1 < 1 /\ call.op = "permutation"
                                      THEN [NoRet EXCEPT !.kind = "array",
                                                         !.arr = o.arr]
                                      ELSE ret
    /\ UNCHANGED <<call, start, x0, target, out, idx, run, first>>

(***************************************************************************)
(* The size argument.                                                      *)
(***************************************************************************)
IntegerTypes == {"int32", "int64"}

\* Numba types a tuple as UniTuple when its items have one type, and as
\* Tuple when it is empty or its items have different types.
TupleCls(elts) ==
    IF elts = <<>> THEN "Tuple"
    ELSE IF \A d \in 1..Len(elts) : elts[d] = elts[1] THEN "UniTuple"
    ELSE "Tuple"

TupleSize(elts, val) == [cls |-> TupleCls(elts), elts |-> elts, val |-> val]

IntSize(n) == [cls |-> "Integer", elts |-> <<>>, val |-> <<n>>]

FloatSize == [cls |-> "Float", elts |-> <<>>, val |-> <<2>>]

\* Tuples of extents of rank 0..2, and three of rank 3: non-negative with
\* at most MaxFill elements in all, or with a negative extent.
Dims ==
    {v \in UNION {[1..r -> -1..MaxFill] : r \in 0..2} :
        IF \E d \in 1..Len(v) : v[d] < 0
        THEN \A d \in 1..Len(v) : v[d] <= 1
        ELSE Prod(v) <= MaxFill}
    \cup {<<1, 2, 2>>, <<2, 1, 2>>, <<2, 2, 1>>}

Sizes ==
    {NoneSize, FloatSize}
    \cup {IntSize(n) : n \in -1..MaxFill}
    \cup {TupleSize([d \in 1..Len(v) |-> "int64"], v) : v \in Dims}
    \cup {TupleSize(<<"float64">>, <<2>>), TupleSize(<<"float64", "float64">>, <<1, 2>>),
          TupleSize(<<"int32", "int64">>, <<2, 1>>),
          TupleSize(<<"int64", "float64">>, <<2, 1>>)}

\* check_size(size): TRUE when no TypingError is raised.
check_size(size) ==
    \/ size.cls = "UniTuple" /\ size.elts[1] \in IntegerTypes
    \/ size.cls = "Tuple" /\ Len(size.elts) = 0
    \/ size.cls = "Integer"

is_nonelike(size) == size.cls = "NoneType"

\* The branch of an overload on size: the scalar impl, the array impl, or
\* the TypingError of check_size. Here an empty size counts as no size.
overload_size_falsy(size) ==
    IF is_nonelike(size) \/ size.val = <<>> THEN "scalar"
    ELSE IF check_size(size) THEN "array"
    ELSE "TypingError: size"

overload_size(size) ==
    IF is_nonelike(size) THEN "scalar"
    ELSE IF check_size(size) THEN "array"
    ELSE "TypingError: size"

(***************************************************************************)
(* Array allocation and iteration.                                         *)
(***************************************************************************)
\* Values an uninitialised element may hold.
Junk == {900, 901}

\* np.empty(size, dtype): negative extents raise ValueError; the elements
\* are uninitialised (all g here).
np_empty(size, g) ==
    IF \E d \in 1..Len(size.val) : size.val[d] < 0
    THEN [error |-> TRUE, arr |-> EmptyArray]
    ELSE [error |-> FALSE,
          arr |-> [shape |-> size.val, data |-> [c \in Coords(size.val) |-> g]]]

ndindex_first(shape) == [d \in 1..Len(shape) |-> 0]

\* np.ndindex with the first axis fastest.
ndindex_next_colmajor(c, shape) ==
    LET open == {d \in 1..Len(shape) : c[d] + 1 < shape[d]}
    IN  IF open = {} THEN [more |-> FALSE, ix |-> c]
        ELSE LET d == CHOOSE e \in open : \A f \in open : e <= f
             IN  [more |-> TRUE,
                  ix |-> [e \in 1..Len(shape) |->
                             IF e > d THEN c[e] ELSE IF e = d THEN c[d] + 1 ELSE 0]]

\* np.ndindex: the coordinate after c, the last axis fastest.
ndindex_next(c, shape) ==
    LET open == {d \in 1..Len(shape) : c[d] + 1 < shape[d]}
    IN  IF open = {} THEN [more |-> FALSE, ix |-> c]
        ELSE LET d == MaxOf(open)
             IN  [more |-> TRUE,
                  ix |-> [e \in 1..Len(shape) |->
                             IF e < d THEN c[e] ELSE IF e = d THEN c[d] + 1 ELSE 0]]

\* How a call stands after the statements before its first draw.
Enter(p, s, o, r) == [pc |-> p, status |-> s, out |-> o, ret |-> r]

Failed(s) == Enter("done", s, EmptyArray, NoRet)

ArrayRet(arr) == [NoRet EXCEPT !.kind = "array", !.arr = arr]

ScalarRet(v) == [NoRet EXCEPT !.kind = "scalar", !.scalar = v]

\* out = np.empty(size, dtype) and the start of for i in np.ndindex(size).
fill_enter(size, g) ==
    LET e == np_empty(size, g)
    IN  IF e.error THEN Failed("ValueError: negative dimensions")
        ELSE IF Prod(size.val) = 0 THEN Enter("done", "ok", e.arr, ArrayRet(e.arr))
        ELSE Enter("fill", "running", e.arr, NoRet)

(***************************************************************************)
(* Kernels.                                                                *)
(***************************************************************************)
KernelNames ==
    <<"next_float", "next_double",
      "random_standard_normal_f", "random_standard_normal",
      "random_standard_exponential_f", "random_standard_exponential",
      "random_standard_exponential_inv_f", "random_standard_exponential_inv">>

\* Raw words offered to the distribution kernels.
KernelWords == {0, 1}

\* A kernel's sample: a value fixed by the kernel and the word it drew.
KernelValue(func, w) ==
    10 * (CHOOSE k \in 1..Len(KernelNames) : KernelNames[k] = func) + w

\* dtype arguments of the distribution methods; "str" is a string such as
\* 'float64', which is not a dtype.
FloatDTypes == {"float32", "float64", "float16", "int64", "bool", "str"}

\* _get_proper_func raising only for what is no number class at all.
get_proper_func_any_number(func_32, func_64, dtype) ==
    IF dtype = "str"
    THEN [error |-> TRUE, next_func |-> func_64]
    ELSE IF dtype = "float32" THEN [error |-> FALSE, next_func |-> func_32]
    ELSE [error |-> FALSE, next_func |-> func_64]

\* _get_proper_func(func_32, func_64, dtype)
get_proper_func(func_32, func_64, dtype) ==
    IF dtype \notin {"float32", "float64"}
    THEN [error |-> TRUE, next_func |-> func_64]
    ELSE IF dtype = "float32" THEN [error |-> FALSE, next_func |-> func_32]
    ELSE [error |-> FALSE, next_func |-> func_64]

Methods == {"zig", "inv", "other"}

\* The kernel the impl of the call c calls.
dist_func(c) ==
    IF c.op = "random"
    THEN get_proper_func("next_float", "next_double", c.dtype).next_func
    ELSE IF c.op = "standard_normal"
    THEN get_proper_func("random_standard_normal_f", "random_standard_normal",
                         c.dtype).next_func
    ELSE IF c.method = "inv"
    THEN get_proper_func("random_standard_exponential_inv_f",
                         "random_standard_exponential_inv", c.dtype).next_func
    ELSE get_proper_func("random_standard_exponential_f",
                         "random_standard_exponential", c.dtype).next_func

(***************************************************************************)
(* random, standard_normal, standard_exponential.                          *)
(***************************************************************************)
\* random with the empty tuple taken for an absent size.
random_overload_falsy(size, dtype, g) ==
    IF get_proper_func("next_float", "next_double", dtype).error
    THEN Failed("TypingError: dtype")
    ELSE IF overload_size_falsy(size) = "scalar"
    THEN Enter("scalar", "running", EmptyArray, NoRet)
    ELSE IF overload_size_falsy(size) = "array" THEN fill_enter(size, g)
    ELSE Failed("TypingError: size")

\* NumPyRandomGeneratorType_random and its impl up to the first draw.
random_overload(size, dtype, g) ==
    IF get_proper_func("next_float", "next_double", dtype).error
    THEN Failed("TypingError: dtype")
    ELSE IF overload_size(size) = "scalar"
    THEN Enter("scalar", "running", EmptyArray, NoRet)
    ELSE IF overload_size(size) = "array" THEN fill_enter(size, g)
    ELSE Failed("TypingError: size")

\* NumPyRandomGeneratorType_standard_normal and its impl up to the first draw.
standard_normal_overload(size, dtype, g) ==
    IF get_proper_func("random_standard_normal_f", "random_standard_normal",
                       dtype).error
    THEN Failed("TypingError: dtype")
    ELSE IF overload_size(size) = "scalar"
    THEN Enter("scalar", "running", EmptyArray, NoRet)
    ELSE IF overload_size(size) = "array" THEN fill_enter(size, g)
    ELSE Failed("TypingError: size")

\* NumPyRandomGeneratorType_standard_exponential and its impl up to the
\* first draw: in the array impl np.empty comes before the test of method.
standard_exponential_overload(size, dtype, method, g) ==
    IF get_proper_func("random_standard_exponential_f",
                       "random_standard_exponential", dtype).error
    THEN Failed("TypingError: dtype")
    ELSE IF overload_size(size) = "scalar"
    THEN IF method \in {"zig", "inv"}
         THEN Enter("scalar", "running", EmptyArray, NoRet)
         ELSE Failed("ValueError: method")
    ELSE IF overload_size(size) = "array"
    THEN IF np_empty(size, g).error THEN fill_enter(size, g)
         ELSE IF method \in {"zig", "inv"} THEN fill_enter(size, g)
         ELSE Failed("ValueError: method")
    ELSE Failed("TypingError: size")

\* A call that touches no caller array begins as e says.
BeginCall(c, e) ==
    /\ CanCall(c)
    /\ call' = c
    /\ start' = bit_generator
    /\ pc' = e.pc
    /\ status' = e.status
    /\ out' = e.out
    /\ idx' = ndindex_first(e.out.shape)
    /\ ret' = e.ret
    /\ kcalls' = <<>>
    /\ x' = EmptyArray
    /\ x0' = EmptyArray
    /\ UNCHANGED <<bit_generator, new_arr, target, i, run, stream, first>>

\* In a repeated execution np.empty may hold other values than in the first.
CallRandom ==
    /\ Idle
    /\ run >= 2 => call.op = "random"
    /\ \E size \in Arg(Sizes, call.size), dtype \in Arg(FloatDTypes, call.dtype),
          g \in Junk :
        BeginCall([NoCall EXCEPT !.op = "random", !.size = size, !.dtype = dtype],
                  random_overload(size, dtype, g))

CallStandardNormal ==
    /\ Idle
    /\ run >= 2 => call.op = "standard_normal"
    /\ \E size \in Arg(Sizes, call.size), dtype \in Arg(FloatDTypes, call.dtype),
          g \in Junk :
        BeginCall([NoCall EXCEPT !.op = "standard_normal", !.size = size,
                                 !.dtype = dtype],
                  standard_normal_overload(size, dtype, g))

CallStandardExponential ==
    /\ Idle
    /\ run >= 2 => call.op = "standard_exponential"
    /\ \E size \in Arg(Sizes, call.size), dtype \in Arg(FloatDTypes, call.dtype),
          method \in Arg(Methods, call.method), g \in Junk :
        BeginCall([NoCall EXCEPT !.op = "standard_exponential", !.size = size,
                                 !.dtype = dtype, !.method = method],
                  standard_exponential_overload(size, dtype, method, g))

DistOps == {"random", "standard_normal", "standard_exponential"}

\* return nb_dt(dist_func(inst.bit_generator))
ScalarStep ==
    /\ pc = "scalar"
    /\ \E w \in KernelWords :
        /\ next_word(w)
        /\ kcalls' = Append(kcalls, KernelValue(dist_func(call), w))
        /\ ret' = ScalarRet(KernelValue(dist_func(call), w))
    /\ pc' = "done"
    /\ status' = "ok"
    /\ UNCHANGED <<call, start, x, x0, new_arr, target, i, out, idx, run, first>>

\* out[i] = dist_func(inst.bit_generator), and the step of np.ndindex.
FillStep ==
    /\ pc = "fill"
    /\ \E w \in KernelWords :
        LET v == KernelValue(dist_func(call), w)
            nxt == ndindex_next(idx, out.shape)
        IN  /\ next_word(w)
            /\ kcalls' = Append(kcalls, v)
            /\ out' = [out EXCEPT !.data[idx] = v]
            /\ idx' = nxt.ix
            /\ pc' = IF nxt.more THEN "fill" ELSE "done"
            /\ status' = IF nxt.more THEN "running" ELSE "ok"
            /\ ret' = IF nxt.more THEN ret ELSE ArrayRet(out')
    /\ UNCHANGED <<call, start, x, x0, new_arr, target, i, run, first>>

(***************************************************************************)
(* integers.                                                               *)
(***************************************************************************)
\* dtype arguments of integers; "str" is a string such as 'int64', which
\* is no number class.
IntDTypes ==
    {"bool", "int8", "uint8", "int16", "uint16", "int32", "uint32", "int64",
     "uint64", "float64", "str"}

SignedDTypes == {"int8", "int16", "int32", "int64"}

UnsignedDTypes == {"uint8", "uint16", "uint32", "uint64"}

\* np.iinfo(_dtype) of an integer dtype: its width and the least and the
\* greatest value of that width.
iinfo(dtype) ==
    LET bits == IF dtype \in {"int8", "uint8"} THEN 8
                ELSE IF dtype \in {"int16", "uint16"} THEN 16
                ELSE IF dtype \in {"int32", "uint32"} THEN 32
                ELSE 64
    IN  IF dtype \in SignedDTypes
        THEN [bits |-> bits, min |-> BigSub(Big(0), Pow2(bits - 1)),
              max |-> BigSub(Pow2(bits - 1), Big(1))]
        ELSE [bits |-> bits, min |-> Big(0), max |-> BigSub(Pow2(bits), Big(1))]

\* getattr(random_methods, f'random_bounded_uint{i_info.bits}_fill')
bounded_fill(bits) ==
    IF bits = 8 THEN "random_bounded_uint8_fill"
    ELSE IF bits = 16 THEN "random_bounded_uint16_fill"
    ELSE IF bits = 32 THEN "random_bounded_uint32_fill"
    ELSE "random_bounded_uint64_fill"

NoKernel ==
    [error |-> TRUE, int_func |-> "", lower_bound |-> Big(0), upper_bound |-> Big(0)]

\* The selection with the bounds of the boolean family taken as 0 and 1.
int_kernel_bool_domain(dtype) ==
    IF dtype = "str" THEN NoKernel
    ELSE IF dtype = "bool"
    THEN [error |-> FALSE, int_func |-> "random_bounded_bool_fill",
          lower_bound |-> Big(0), upper_bound |-> Big(1)]
    ELSE IF dtype \notin SignedDTypes \cup UnsignedDTypes THEN NoKernel
    ELSE [error |-> FALSE, int_func |-> bounded_fill(iinfo(dtype).bits),
          lower_bound |-> iinfo(dtype).min, upper_bound |-> iinfo(dtype).max]

\* The kernel and the bounds NumPyRandomGeneratorType_integers selects: a
\* dtype that is no number class is refused, np.bool_ has its own kernel,
\* and np.iinfo refuses what is no integer dtype.
int_kernel(dtype) ==
    IF dtype = "str" THEN NoKernel
    ELSE IF dtype = "bool"
    THEN [error |-> FALSE, int_func |-> "random_bounded_bool_fill",
          lower_bound |-> Big(-1), upper_bound |-> Big(2)]
    ELSE IF dtype \notin SignedDTypes \cup UnsignedDTypes THEN NoKernel
    ELSE [error |-> FALSE, int_func |-> bounded_fill(iinfo(dtype).bits),
          lower_bound |-> iinfo(dtype).min, upper_bound |-> iinfo(dtype).max]

\* dtype(v): conversion to the dtype, wrapping to its width.
Cast(dtype, v) ==
    IF dtype = "bool" THEN (IF v = Big(0) THEN Big(0) ELSE Big(1))
    ELSE WrapWord(iinfo(dtype).bits, dtype \in SignedDTypes, v)

\* _randint_arg_check(low, high, endpoint, lower_bound, upper_bound): TRUE
\* when no ValueError is raised. The closed range low..h must lie within the
\* bounds and must not be empty; the bounds (-1, 2) of the boolean family
\* are sentinels that lie outside the valid domain {0, 1}.
randint_arg_check(low, high, endpoint, lower_bound, upper_bound) ==
    LET h == IF endpoint THEN high ELSE BigSub(high, Big(1))
        sentinel == lower_bound = Big(-1) /\ upper_bound = Big(2)
    IN  /\ IF sentinel THEN BigLess(lower_bound, low) ELSE BigLeq(lower_bound, low)
        /\ IF sentinel THEN BigLess(h, upper_bound) ELSE BigLeq(h, upper_bound)
        /\ BigLeq(low, h)

\* a - b for two values of the dtype. Numba types the difference of two
\* signed integers or two booleans as int64 and of two unsigned integers as
\* uint64, and the subtraction wraps at that width.
dtype_sub(dtype, a, b) ==
    WrapWord(64, dtype \notin UnsignedDTypes, BigSub(a, b))

\* low and rng as impl hands them to int_func, high left as it is.
integers_range_no_decrement(low, high, endpoint, dtype) ==
    [low |-> Cast(dtype, low),
     rng |-> dtype_sub(dtype, Cast(dtype, high), Cast(dtype, low))]

\* low and rng as impl hands them to int_func.
integers_range(low, high, endpoint, dtype) ==
    IF ~endpoint
    THEN [low |-> Cast(dtype, low),
          rng |-> dtype_sub(dtype, Cast(dtype, BigSub(high, Big(1))),
                            Cast(dtype, low))]
    ELSE [low |-> Cast(dtype, low),
          rng |-> dtype_sub(dtype, Cast(dtype, high), Cast(dtype, low))]

\* impl without the call of _randint_arg_check.
integers_impl_unchecked(low, high, endpoint, dtype, size, g) ==
    fill_enter(size, g)

\* impl of integers up to the first draw: the argument check, then int_func
\* begins by allocating its array (of size 1 in the scalar impl).
integers_impl(low, high, endpoint, dtype, size, g) ==
    IF ~randint_arg_check(low, high, endpoint, int_kernel(dtype).lower_bound,
                          int_kernel(dtype).upper_bound)
    THEN Failed("ValueError: range")
    ELSE fill_enter(size, g)

\* integers with a scalar impl that asks int_func for two elements.
integers_overload_scalar_two(low, high, size, dtype, endpoint, g) ==
    IF int_kernel(dtype).error THEN Failed("TypingError: dtype")
    ELSE IF overload_size(size) = "scalar"
    THEN integers_impl(low, high, endpoint, dtype, IntSize(2), g)
    ELSE IF overload_size(size) = "array"
    THEN integers_impl(low, high, endpoint, dtype, size, g)
    ELSE Failed("TypingError: size")

\* NumPyRandomGeneratorType_integers and its impl up to the first draw.
integers_overload(low, high, size, dtype, endpoint, g) ==
    IF int_kernel(dtype).error THEN Failed("TypingError: dtype")
    ELSE IF overload_size(size) = "scalar"
    THEN integers_impl(low, high, endpoint, dtype, IntSize(1), g)
    ELSE IF overload_size(size) = "array"
    THEN integers_impl(low, high, endpoint, dtype, size, g)
    ELSE Failed("TypingError: size")

\* Values of low and high the caller passes with a dtype: around zero and
\* around the limits of the dtype, as far as Numba has an integer type for
\* them (int64 or uint64).
Bounds(dtype) ==
    IF dtype \in SignedDTypes \cup UnsignedDTypes
    THEN {v \in {Big(-1), Big(0), Big(5),
                 BigSub(iinfo(dtype).min, Big(1)), iinfo(dtype).min,
                 iinfo(dtype).max, BigAdd(iinfo(dtype).max, Big(1))} :
             BigLeq(iinfo("int64").min, v) /\ BigLeq(v, iinfo("uint64").max)}
    ELSE IF dtype = "bool" THEN {Big(v) : v \in {-1, 0, 1, 2, 5}}
    ELSE {Big(0), Big(5)}

\* Sizes passed to integers: none, an integer, a tuple of rank 0, 1 or 2, at
\* most MaxIntFill elements in all, and sizes of other types.
IntegerSizes ==
    {NoneSize, FloatSize}
    \cup {IntSize(n) : n \in -1..MaxIntFill}
    \cup {TupleSize([d \in 1..Len(v) |-> "int64"], v) :
             v \in {<<>>, <<-1>>, <<0>>, <<1>>, <<MaxIntFill>>,
                    <<1, MaxIntFill>>, <<MaxIntFill, 0>>}}
    \cup {TupleSize(<<"float64">>, <<2>>), TupleSize(<<"int32", "int64">>, <<2, 1>>)}

\* Raw words offered to int_func.
BoundedWords == {0, 3, 255}

CallIntegers ==
    /\ Idle
    /\ run >= 2 => call.op = "integers"
    /\ \E dtype \in Arg(IntDTypes, call.dtype), size \in Arg(IntegerSizes, call.size),
          endpoint \in Arg(BOOLEAN, call.endpoint), g \in Junk :
      \E low \in Arg(Bounds(dtype), call.low), high \in Arg(Bounds(dtype), call.high) :
        LET e == integers_overload(low, high, size, dtype, endpoint, Big(g))
        IN  BeginCall([NoCall EXCEPT !.op = "integers", !.size = size,
                                     !.dtype = dtype, !.low = low, !.high = high,
                                     !.endpoint = endpoint],
                      [e EXCEPT !.pc = IF e.pc = "fill" THEN "bounded" ELSE e.pc])

\* One attempt of the masked rejection sampler of int_func: rng is read as an
\* unsigned word; a rng of 2^30 or more covers every raw word of BoundedWords.
bounded_sample(w, rng) ==
    LET u == WrapWord(64, FALSE, rng)
    IN  IF u[1] # 0 \/ u[2] # 0 THEN [accepted |-> TRUE, value |-> w]
        ELSE [accepted |-> (w % (Mask(u[3]) + 1)) <= u[3],
              value |-> w % (Mask(u[3]) + 1)]

\* One raw word inside int_func(inst.bit_generator, low, rng, size, dtype);
\* when it is accepted, low + value is stored and the fill moves on. The
\* scalar impl returns element 0.
BoundedStep ==
    /\ pc = "bounded"
    /\ \E w \in BoundedWords :
        LET a == integers_range(call.low, call.high, call.endpoint, call.dtype)
            r == bounded_sample(w, a.rng)
            nxt == ndindex_next(idx, out.shape)
        IN  /\ next_word(w)
            /\ IF ~r.accepted
               THEN /\ draws - Len(kcalls) < MaxReject
                    /\ UNCHANGED <<pc, status, out, idx, kcalls, ret>>
               ELSE /\ kcalls' = Append(kcalls, Cast(call.dtype,
                                                      BigAdd(a.low, Big(r.value))))
                    /\ out' = [out EXCEPT
                                  !.data[idx] = Cast(call.dtype,
                                                     BigAdd(a.low, Big(r.value)))]
                    /\ idx' = nxt.ix
                    /\ pc' = IF nxt.more THEN "bounded" ELSE "done"
                    /\ status' = IF nxt.more THEN "running" ELSE "ok"
                    /\ ret' = IF nxt.more THEN ret
                              ELSE IF is_nonelike(call.size)
                              THEN ScalarRet(out'.data[<<0>>])
                              ELSE ArrayRet(out')
    /\ UNCHANGED <<call, start, x, x0, new_arr, target, i, run, first>>

\* The call returns to the caller (or its exception reaches the caller), who
\* drops the arrays and the result; the bit generator keeps its state.
Return ==
    /\ pc = "done"
    /\ run # 1
    /\ pc' = "idle"
    /\ call' = NoCall
    /\ status' = "none"
    /\ start' = bit_generator
    /\ x' = EmptyArray
    /\ x0' = EmptyArray
    /\ new_arr' = EmptyArray
    /\ target' = "x"
    /\ i' = 0
    /\ out' = EmptyArray
    /\ idx' = <<>>
    /\ kcalls' = <<>>
    /\ ret' = NoRet
    /\ run' = IF run >= 2 THEN 1 ELSE run
    /\ stream' = <<>>
    /\ first' = NoFirst
    /\ UNCHANGED bit_generator

\* The state after construction of the Generator, calls made as run says.
InitRun(r) ==
    /\ pc = "idle"
    /\ call = NoCall
    /\ status = "none"
    /\ bit_generator = 0
    /\ start = 0
    /\ x = EmptyArray
    /\ x0 = EmptyArray
    /\ new_arr = EmptyArray
    /\ target = "x"
    /\ i = 0
    /\ out = EmptyArray
    /\ idx = <<>>
    /\ kcalls = <<>>
    /\ ret = NoRet
    /\ run = r
    /\ stream = <<>>
    /\ first = NoFirst

Init == InitRun(0)

Next ==
    \/ CallShuffle
    \/ CallPermutation
    \/ ShuffleStep
    \/ CallRandom
    \/ CallStandardNormal
    \/ CallStandardExponential
    \/ ScalarStep
    \/ FillStep
    \/ CallIntegers
    \/ BoundedStep
    \/ Return

Spec == Init /\ [][Next]_vars

(***************************************************************************)
(* Two generators in the same state given the same call: the call is made  *)
(* on the first, its outcome is kept in first, and the same call is then   *)
(* made on a second generator that starts in the state the first started   *)
(* in and hands out the same words.                                        *)
(***************************************************************************)
Repeat ==
    /\ pc = "done"
    /\ run = 1
    /\ first' = [status |-> status, ret |-> ret, x |-> x,
                 bit_generator |-> bit_generator]
    /\ bit_generator' = start
    /\ run' = 2
    /\ pc' = "idle"
    /\ status' = "none"
    /\ x' = EmptyArray
    /\ new_arr' = EmptyArray
    /\ target' = "x"
    /\ i' = 0
    /\ out' = EmptyArray
    /\ idx' = <<>>
    /\ kcalls' = <<>>
    /\ ret' = NoRet
    /\ UNCHANGED <<call, start, x0, stream>>

\* A scalar call of integers (no size) has ended on the first generator;
\* the call is made again with size 1 on a second generator that starts in
\* the state the first started in and hands out the same words.
RepeatSized ==
    /\ pc = "done"
    /\ run = 1
    /\ call.op = "integers"
    /\ is_nonelike(call.size)
    /\ \E one \in {IntSize(1), TupleSize(<<"int64">>, <<1>>)} :
           call' = [call EXCEPT !.size = one]
    /\ first' = [status |-> status, ret |-> ret, x |-> x,
                 bit_generator |-> bit_generator]
    /\ bit_generator' = start
    /\ run' = 3
    /\ pc' = "idle"
    /\ status' = "none"
    /\ x' = EmptyArray
    /\ new_arr' = EmptyArray
    /\ target' = "x"
    /\ i' = 0
    /\ out' = EmptyArray
    /\ idx' = <<>>
    /\ kcalls' = <<>>
    /\ ret' = NoRet
    /\ UNCHANGED <<start, x0, stream>>

InitDet == InitRun(1)

NextDet == Next \/ Repeat

SpecDet == InitDet /\ [][NextDet]_vars

\* The calls of integers, each scalar call followed by the call with size 1.
NextSized == CallIntegers \/ BoundedStep \/ Return \/ RepeatSized

SpecSized == InitDet /\ [][NextSized]_vars

(***************************************************************************)
(* Properties.                                                             *)
(***************************************************************************)
ValidAxisShuffle ==
    /\ call.op = "shuffle"
    /\ call.xkind = "Array"
    /\ pc \in {"shuffle", "done"}
    /\ 0 <= call.axis
    /\ call.axis < ndim(x0)

\* C1: for every array and every valid axis, after every iteration of the
\* loop of shuffle (and at its end) x has the shape it had and holds the
\* same multiset of values as before the call.
C1_ShuffleKeepsMultiset ==
    ValidAxisShuffle => (x.shape = x0.shape /\ SameMultiset(x, x0))

\* A shuffle along axis 1 of a 2-d array has ended and has moved elements.
C1_Witness ==
    /\ ValidAxisShuffle
    /\ status = "ok"
    /\ ndim(x0) = 2
    /\ call.axis = 1
    /\ x # x0

\* C2: permutation never modifies x, in any state of the call; for an
\* integer n the result has shape (n,) and holds each of 0..n-1 once.
C2_PermutationLeavesX ==
    call.op = "permutation" =>
        /\ x = x0
        /\ (call.xkind = "Integer" /\ status = "ok") =>
              /\ ret.kind = "array"
              /\ ret.arr.shape = <<IF call.n < 0 THEN 0 ELSE call.n>>
              /\ \A v \in 0..(call.n - 1) : Count(ret.arr, v) = 1

\* permutation of an array has returned a rearranged copy.
C2_Witness ==
    /\ call.op = "permutation"
    /\ call.xkind = "Array"
    /\ status = "ok"
    /\ ret.kind = "array"
    /\ ret.arr # x0
    /\ x = x0

InRange(v) ==
    /\ BigLeq(call.low, v)
    /\ BigLeq(v, IF call.endpoint THEN call.high ELSE BigSub(call.high, Big(1)))

\* C3: every value integers stores or returns, once the arguments passed
\* validation, lies in [low, high] with endpoint and in [low, high - 1]
\* without.
C3_IntegersInRange ==
    (call.op = "integers" /\ status \in {"running", "ok"}) =>
        /\ \A k \in 1..Len(kcalls) : InRange(kcalls[k])
        /\ ret.kind = "scalar" => InRange(ret.scalar)
        /\ ret.kind = "array" =>
              \A c \in DOMAIN ret.arr.data : InRange(ret.arr.data[c])

\* integers has returned a two-element int8 array from a range with a
\* negative low, after rejecting a raw word.
C3_Witness ==
    /\ call.op = "integers"
    /\ status = "ok"
    /\ call.dtype = "int8"
    /\ BigLess(call.low, Big(0))
    /\ ~call.endpoint
    /\ ret.kind = "array"
    /\ Len(kcalls) = 2
    /\ draws > 2

TypingErrors == {"TypingError: x", "TypingError: dtype", "TypingError: size"}

\* C4: integers with endpoint false and low = high, once typed, raises the
\* range error in the scalar and in the array impl, returns nothing and has
\* drawn no word.
C4_EmptyRangeFails ==
    (call.op = "integers" /\ ~call.endpoint /\ call.low = call.high
       /\ status \notin TypingErrors) =>
        /\ status = "ValueError: range"
        /\ ret.kind = "none"
        /\ draws = 0

\* integers(5, 5) with endpoint false and no size has failed.
C4_Witness ==
    /\ call.op = "integers"
    /\ ~call.endpoint
    /\ call.low = Big(5)
    /\ call.high = Big(5)
    /\ call.dtype = "int8"
    /\ is_nonelike(call.size)
    /\ status = "ValueError: range"

\* C5: shuffle of an array with axis >= rank or axis < 0 fails with an
\* IndexError, with no word drawn and x as it was.
C5_BadAxisFails ==
    (call.op = "shuffle" /\ call.xkind = "Array"
       /\ (call.axis >= ndim(x0) \/ call.axis < 0)) =>
        /\ status \in {"IndexError: axis", "IndexError: tuple index"}
        /\ draws = 0
        /\ x = x0

ErrorStatus == status \notin {"none", "running", "ok", "crash"}

C7_KernelPerCoordinate ==
    (call.op \in DistOps /\ status \in {"running", "ok"}) =>
        IF is_nonelike(call.size)
        THEN pc = "done" =>
                /\ Len(kcalls) = 1
                /\ ret = ScalarRet(kcalls[1])
        ELSE /\ \A c \in DOMAIN out.data :
                   IF RowMajorRank(c, out.shape) < Len(kcalls)
                   THEN out.data[c] = kcalls[RowMajorRank(c, out.shape) + 1]
                   ELSE out.data[c] \in Junk
             /\ pc = "fill" => RowMajorRank(idx, out.shape) = Len(kcalls)
             /\ pc = "done" =>
                   /\ Len(kcalls) = Prod(call.size.val)
                   /\ ret = ArrayRet(out)

\* A fill of shape (1, 2, 2) has ended, its kernel results not all equal.
C7_Witness ==
    /\ call.op = "standard_normal"
    /\ status = "ok"
    /\ call.size.val = <<1, 2, 2>>
    /\ Len(kcalls) = 4
    /\ kcalls[2] # kcalls[3]

ResolvedDims(size) == IF size.cls = "Integer" THEN <<size.val[1]>> ELSE size.val

\* C8: a call with a size that has returned, has returned an array of
\* shape exactly the resolved dims; the empty tuple gives a 0-d array of
\* one sample, an absent size a scalar.
C8_ShapeLaw ==
    (call.op \in DistOps \cup {"integers"} /\ status = "ok") =>
        IF is_nonelike(call.size) THEN ret.kind = "scalar"
        ELSE /\ ret.kind = "array"
             /\ ret.arr.shape = ResolvedDims(call.size)
             /\ Cardinality(DOMAIN ret.arr.data) = Prod(ResolvedDims(call.size))
             /\ call.size.val = <<>> => ret.arr.data[<<>>] = kcalls[1]

\* random with the empty tuple has returned a 0-d array.
C8_Witness ==
    /\ call.op = "random"
    /\ status = "ok"
    /\ call.size.cls = "Tuple"
    /\ call.size.val = <<>>
    /\ ret.kind = "array"
    /\ ret.arr.shape = <<>>

\* The sizes the resolver is to accept: a non-negative integer, or a
\* sequence of non-negative integers.
AcceptableSize(size) ==
    \/ size.cls = "Integer" /\ size.val[1] >= 0
    \/ /\ size.cls \in {"UniTuple", "Tuple"}
       /\ \A d \in 1..Len(size.val) :
             size.elts[d] \in IntegerTypes /\ size.val[d] >= 0

\* C9: in a distribution call with a valid dtype and method the size
\* resolver maps an absent size to a scalar, an integer n to shape (n,) and
\* a sequence of non-negative integers to that shape, and rejects every
\* other size with an error, no array and no draw.
C9_SizeResolver ==
    (call.op \in DistOps /\ pc = "done" /\ call.dtype \in {"float32", "float64"}
       /\ call.method \in {"zig", "inv"}) =>
        IF is_nonelike(call.size) THEN status = "ok" /\ ret.kind = "scalar"
        ELSE IF AcceptableSize(call.size)
        THEN /\ status = "ok"
             /\ ret.kind = "array"
             /\ ret.arr.shape = ResolvedDims(call.size)
        ELSE /\ status \in {"TypingError: size", "ValueError: negative dimensions"}
             /\ ret.kind = "none"
             /\ draws = 0

Kernels32 ==
    {"next_float", "random_standard_normal_f", "random_standard_exponential_f",
     "random_standard_exponential_inv_f"}

Kernels64 ==
    {"next_double", "random_standard_normal", "random_standard_exponential",
     "random_standard_exponential_inv"}

\* The kernel that produced the sample v.
KernelOf(v) == KernelNames[v \div 10]

\* C11: a distribution call with dtype float32 is never refused for its
\* dtype and every sample comes from a 32-bit kernel; with float64 likewise
\* from a 64-bit kernel; with any other dtype the call fails with the dtype
\* error, returns nothing and has drawn no word.
C11_FloatKernelSelector ==
    call.op \in DistOps =>
        IF call.dtype = "float32"
        THEN /\ status # "TypingError: dtype"
             /\ \A k \in 1..Len(kcalls) : KernelOf(kcalls[k]) \in Kernels32
        ELSE IF call.dtype = "float64"
        THEN /\ status # "TypingError: dtype"
             /\ \A k \in 1..Len(kcalls) : KernelOf(kcalls[k]) \in Kernels64
        ELSE /\ status = "TypingError: dtype"
             /\ kcalls = <<>>
             /\ ret.kind = "none"
             /\ draws = 0

\* standard_exponential with dtype float32 and method inv has filled an
\* array from the 32-bit inverse kernel.
C11_Witness ==
    /\ call.op = "standard_exponential"
    /\ call.dtype = "float32"
    /\ call.method = "inv"
    /\ status = "ok"
    /\ Len(kcalls) = 2
    /\ KernelOf(kcalls[1]) = "random_standard_exponential_inv_f"

\* The fill kernel and the least and greatest value of each integer dtype,
\* the values written out in limbs.
IntLimits ==
    [int8   |-> [fill |-> "random_bounded_uint8_fill",
                 min |-> Big(-128), max |-> Big(127)],
     uint8  |-> [fill |-> "random_bounded_uint8_fill",
                 min |-> Big(0), max |-> Big(255)],
     int16  |-> [fill |-> "random_bounded_uint16_fill",
                 min |-> Big(-32768), max |-> Big(32767)],
     uint16 |-> [fill |-> "random_bounded_uint16_fill",
                 min |-> Big(0), max |-> Big(65535)],
     int32  |-> [fill |-> "random_bounded_uint32_fill",
                 min |-> <<-1, Limb - 2, 0>>, max |-> <<0, 1, Limb - 1>>],
     uint32 |-> [fill |-> "random_bounded_uint32_fill",
                 min |-> Big(0), max |-> <<0, 3, Limb - 1>>],
     int64  |-> [fill |-> "random_bounded_uint64_fill",
                 min |-> <<-8, 0, 0>>, max |-> <<7, Limb - 1, Limb - 1>>],
     uint64 |-> [fill |-> "random_bounded_uint64_fill",
                 min |-> Big(0), max |-> <<15, Limb - 1, Limb - 1>>]]

\* C12: integers accepts bool and the eight integer dtypes and refuses any
\* other dtype with the dtype error before any draw; for bool it selects
\* the boolean fill with the bounds (-1, 2), for an integer dtype the fill
\* of its width with the least and the greatest value of the dtype, and
\* the full range of an accepted integer dtype is not refused.
C12_IntegerKernelSelector ==
    call.op = "integers" =>
        IF call.dtype = "bool"
        THEN /\ int_kernel(call.dtype) =
                   [error |-> FALSE, int_func |-> "random_bounded_bool_fill",
                    lower_bound |-> Big(-1), upper_bound |-> Big(2)]
             /\ status # "TypingError: dtype"
        ELSE IF call.dtype \in DOMAIN IntLimits
        THEN /\ int_kernel(call.dtype) =
                   [error |-> FALSE, int_func |-> IntLimits[call.dtype].fill,
                    lower_bound |-> IntLimits[call.dtype].min,
                    upper_bound |-> IntLimits[call.dtype].max]
             /\ status # "TypingError: dtype"
             /\ (/\ call.low = IntLimits[call.dtype].min
                 /\ call.high = IntLimits[call.dtype].max
                 /\ call.endpoint) => status # "ValueError: range"
        ELSE /\ int_kernel(call.dtype).error
             /\ status = "TypingError: dtype"
             /\ ret.kind = "none"
             /\ draws = 0

\* integers over the full range of uint64 has returned a value.
C12_Witness ==
    /\ call.op = "integers"
    /\ call.dtype = "uint64"
    /\ call.low = Big(0)
    /\ call.high = <<15, Limb - 1, Limb - 1>>
    /\ call.endpoint
    /\ status = "ok"
    /\ ret.kind = "scalar"

\* The array positions along the axis after the draws js[1..k] of a shuffle
\* of n positions: q[p] is the position the content of p came from, the
\* m-th draw exchanging the contents of positions n - m and js[m].
RECURSIVE Transposed(_, _, _)
Transposed(n, js, k) ==
    IF k = 0 THEN [p \in 0..(n - 1) |-> p]
    ELSE LET q == Transposed(n, js, k - 1)
         IN  [q EXCEPT ![n - k] = q[js[k]], ![js[k]] = q[n - k]]

\* x0 with the slices along the axis rearranged as q says.
Rearranged(arr, axis, q) ==
    [arr EXCEPT !.data =
        [c \in DOMAIN arr.data |->
            arr.data[[c EXCEPT ![axis + 1] = q[c[axis + 1]]]]]]

\* The state of a shuffle along a valid axis after each draw: the m-th j
\* drawn is the one for i = n - m and lies in 0..i, the loop stands at
\* i = n - 1 - (number of j drawn) >= 1, x is x0 with the transpositions
\* (n - m, j_m) applied in that order, and the call has ended exactly when
\* max(n - 1, 0) values have been drawn.
C13_Steps ==
    ValidAxisShuffle =>
        LET n == x0.shape[call.axis + 1]
            k == Len(kcalls)
        IN  /\ status \in {"running", "ok"}
            /\ \A m \in 1..k : 0 <= kcalls[m] /\ kcalls[m] <= n - m
            /\ pc = "shuffle" => (i = n - 1 - k /\ i >= 1)
            /\ pc = "done" => (k = (IF n >= 1 THEN n - 1 ELSE 0) /\ status = "ok")
            /\ x = Rearranged(x0, call.axis, Transposed(n, kcalls, k))
            /\ n <= 1 => (pc = "done" /\ x = x0 /\ draws = 0)
            /\ pc = "shuffle" => ENABLED ShuffleStep

\* A step in which random_interval returns a j: exactly that j is added to
\* the draws, and the loop moves from i to i - 1, or ends when i was 1.
C13_Descent ==
    (ValidAxisShuffle /\ pc = "shuffle" /\ kcalls' # kcalls) =>
        /\ Len(kcalls') = Len(kcalls) + 1
        /\ SubSeq(kcalls', 1, Len(kcalls)) = kcalls
        /\ IF i > 1 THEN pc' = "shuffle" /\ i' = i - 1
           ELSE pc' = "done" /\ status' = "ok"

\* C13: shuffle along a valid axis visits i = n - 1, ..., 1 in descending
\* order, draws one j in 0..i for each, exchanges slices i and j, so that
\* x is x0 with those transpositions applied in that order; nothing is
\* drawn for n <= 1; and the loop ends: it is never blocked, every j drawn
\* takes it one index down, and it is left after the draw for i = 1.
C13_ShuffleOrder ==
    /\ C13_Steps
    /\ [][C13_Steps' /\ C13_Descent]_vars

\* The array [0, 1, 2, 3] with j = 3, 1, 0 drawn for i = 3, 2, 1 has ended
\* as [2, 0, 1, 3] (with every value one greater: [1, 2, 3, 4] as
\* [3, 1, 2, 4]).
C13_Witness ==
    /\ ValidAxisShuffle
    /\ status = "ok"
    /\ x0 = arange(4)
    /\ kcalls = <<3, 1, 0>>
    /\ x.data = [c \in Coords(<<4>>) |-> <<2, 0, 1, 3>>[c[1] + 1]]

\* The rearrangements of n positions.
Bijections(n) ==
    {q \in [0..(n - 1) -> 0..(n - 1)] :
        \A a \in 0..(n - 1), b \in 0..(n - 1) : q[a] = q[b] => a = b}

\* C14: in every state of a shuffle of an array of rank >= 1 along a valid
\* axis there is one rearrangement q of the positions along the axis such
\* that, whatever the other coordinates, the element at position p is the
\* one x0 had at position q[p] with the same other coordinates.
C14_WholeSlices ==
    ValidAxisShuffle =>
        \E q \in Bijections(x0.shape[call.axis + 1]) :
            x = Rearranged(x0, call.axis, q)

\* A shuffle along axis 0 of a 3 x 2 array of distinct values has ended
\* with its rows in another order.
C14_Witness ==
    /\ ValidAxisShuffle
    /\ status = "ok"
    /\ x0 = ArrayOf(<<3, 2>>, 64)
    /\ call.axis = 0
    /\ x.data[<<0, 0>>] # x0.data[<<0, 0>>]
    /\ x.data[<<0, 1>>] = x.data[<<0, 0>>] + 1

\* The greatest range of a dtype: its maximum minus its minimum.
MaxRange(dtype) ==
    IF dtype = "bool" THEN Big(1)
    ELSE BigSub(IntLimits[dtype].max, IntLimits[dtype].min)

\* C15: in a call of integers that passed validation the range handed to
\* the sampler is high - low with endpoint and (high - 1) - low without,
\* not wrapped, and lies in 0..(maximum - minimum of the dtype); a call
\* refused for its range has drawn nothing and stored nothing.
C15_RangeNoWrap ==
    call.op = "integers" =>
        /\ status \in {"running", "ok"} =>
              LET r == integers_range(call.low, call.high, call.endpoint, call.dtype)
                  h == IF call.endpoint THEN call.high ELSE BigSub(call.high, Big(1))
              IN  /\ r.rng = BigSub(h, call.low)
                  /\ BigLeq(Big(0), r.rng)
                  /\ BigLeq(r.rng, MaxRange(call.dtype))
        /\ status = "ValueError: range" => (draws = 0 /\ kcalls = <<>>)

\* C16: integers with size 1, made from the generator state and with the
\* low, high, dtype and endpoint of a call with no size, ends as that call
\* did (the same error, or a value), leaves the generator in the same
\* state, and its array of shape (1,) holds at index 0 the value the
\* scalar call returned.
C16_ScalarIsSizeOne ==
    (run = 3 /\ pc = "done") =>
        /\ status = first.status
        /\ bit_generator = first.bit_generator
        /\ status = "ok" =>
              /\ first.ret.kind = "scalar"
              /\ ret.kind = "array"
              /\ DOMAIN ret.arr.data = {<<0>>}
              /\ ret.arr.data[<<0>>] = first.ret.scalar

\* The call with size (1,) has returned after the scalar call, both having
\* had a raw word rejected.
C16_Witness ==
    /\ run = 3
    /\ pc = "done"
    /\ status = "ok"
    /\ call.size.cls = "UniTuple"
    /\ call.dtype = "int8"
    /\ draws = 2
    /\ first.ret.kind = "scalar"
    /\ ret.kind = "array"

====
